---- MODULE Spec2Model ----
(***************************************************************************)
(* The tabular data-analysis engine: class Analytics (column profiling,    *)
(* type inference, outlier detection, insights, the analysis cache) and    *)
(* the overlapping class DataProcessor.                                    *)
(*                                                                         *)
(* JavaScript values are records [kind, str]: kind is the typeof-like tag  *)
(* and str is what String(v) yields.  Strings are atomic for TLC, so the   *)
(* string built-ins (trim, parseFloat, isFinite, Date.parse, the date      *)
(* regular expressions) are tables over a fixed lexicon of literals.       *)
(* Arithmetic is exact over integers; a quantity that is fractional in the *)
(* source is carried with its scale in the name (x100, x8).                *)
(***************************************************************************)
EXTENDS Integers, Sequences, FiniteSets, TLC

VARIABLES
    analysisCache,  \* Analytics.analysisCache: the Map, as its entries in insertion order
    now,            \* the value Date.now() returns
    call,           \* the last operation of the cache machine and its outcome
    insertOrder,    \* history: keys in the order in which they entered the Map
    data,           \* the dataset handed to an on-demand operation
    ret             \* the last on-demand operation and what it returned or raised

vars == <<analysisCache, now, call, insertOrder, data, ret>>


-----------------------------------------------------------------------------
(* JavaScript scalars *)

Num(n) == [kind |-> "number", str |-> ToString(n)]

Str(s) == [kind |-> "string", str |-> s]

Bool(s) == [kind |-> "boolean", str |-> s]

Null == [kind |-> "null", str |-> "null"]

Undefined == [kind |-> "undefined", str |-> "undefined"]

\* A key the row object does not have.
Absent == [kind |-> "absent", str |-> ""]

\* String(v)
String(v) == v.str

\* The numbers whose decimal form the lexicon knows.
NumberRange == 0 .. 100

NumberOf(s) == CHOOSE n \in NumberRange : ToString(n) = s

IsNumeral(s) == \E n \in NumberRange : ToString(n) = s

\* String.prototype.trim
Trim(s) == IF s = " 7 " THEN "7" ELSE IF s = "  " THEN "" ELSE s

\* parseFloat(s): {} is NaN, {n} is the number n.  Leading blanks are skipped
\* and parsing stops at the first character that cannot continue a number.
parseFloat(s) ==
    IF IsNumeral(s) THEN {NumberOf(s)}
    ELSE IF s = " 7 " THEN {7}
    ELSE IF s = "12abc" THEN {12}
    ELSE IF s \in {"2024-01-15", "2024-13-45"} THEN {2024}
    ELSE {}

\* isFinite(s) for a string: Number(s) is a finite number.
isFinite(s) == IsNumeral(s) \/ s \in {" 7 ", "", "  "}

\* One of the four datePatterns matches.
matchesDatePattern(s) == s \in {"2024-01-15", "2024-13-45"}

\* !isNaN(Date.parse(s))
dateParses(s) == s = "2024-01-15"

\* String.prototype.toLowerCase
toLowerCase(s) == IF s = "YES" THEN "yes" ELSE IF s = "TRUE" THEN "true" ELSE s

BooleanTokens == {"true", "false", "yes", "no", "1", "0"}

-----------------------------------------------------------------------------
(* Rows and columns *)

Columns == <<"a", "b">>

\* row[header]: reading a key the row lacks yields undefined.
Get(row, header) == IF row[header] = Absent THEN Undefined ELSE row[header]

\* Object.keys(row), in declaration order.
ObjectKeys(row) == SelectSeq(Columns, LAMBDA h : row[h] # Absent)

\* data.map(row => row[header])
ColumnValues(rows, header) == [i \in 1 .. Len(rows) |-> Get(rows[i], header)]

\* Variant of IsMissing: undefined is not tested.
IsMissing_withoutUndefined(v) == v = Null \/ v = Str("")

\* v === null || v === undefined || v === ''
IsMissing(v) == v = Null \/ v = Undefined \/ v = Str("")

-----------------------------------------------------------------------------
(* Analytics: type inference and the per-column counts *)

\* The body of the loop of detectDataType: the first recognizer that takes
\* the value, "other" when none does.
classifyValue(value) ==
    LET strValue == Trim(String(value))
    IN  IF matchesDatePattern(strValue) /\ dateParses(strValue) THEN "date"
        ELSE IF parseFloat(strValue) # {} /\ isFinite(strValue) THEN "numeric"
        ELSE IF toLowerCase(strValue) \in BooleanTokens THEN "boolean"
        ELSE "other"

RECURSIVE countOf(_, _)
\* dateCount, numericCount, booleanCount after the loop over cleanValues.
countOf(cleanValues, bucket) ==
    IF cleanValues = <<>> THEN 0
    ELSE (IF classifyValue(Head(cleanValues)) = bucket THEN 1 ELSE 0)
         + countOf(Tail(cleanValues), bucket)

\* Variant of ratioAboveThreshold: count / total >= 0.8.
ratioAboveThreshold_inclusive(count, total) == 10 * count >= 8 * total

\* count / total > 0.8 over non-negative integers
ratioAboveThreshold(count, total) == 10 * count > 8 * total

detectDataType(values) ==
    IF Len(values) = 0 THEN "empty"
    ELSE LET cleanValues == SelectSeq(values, LAMBDA v : ~IsMissing(v))
             total == Len(cleanValues)
         IN  IF total = 0 THEN "empty"
             ELSE IF ratioAboveThreshold(countOf(cleanValues, "date"), total) THEN "date"
             ELSE IF ratioAboveThreshold(countOf(cleanValues, "numeric"), total) THEN "numeric"
             ELSE IF ratioAboveThreshold(countOf(cleanValues, "boolean"), total) THEN "boolean"
             ELSE "categorical"

\* Variant of countMissingValues: the empty string is not counted.
countMissingValues_withoutEmptyString(values) ==
    Len(SelectSeq(values, LAMBDA v : v = Null \/ v = Undefined))

countMissingValues(values) == Len(SelectSeq(values, IsMissing))

countUniqueValues(values) == Cardinality({String(values[i]) : i \in DOMAIN values})

-----------------------------------------------------------------------------
(* Analytics: descriptive statistics *)

RECURSIVE insertSorted(_, _)
insertSorted(sorted, v) ==
    IF sorted = <<>> THEN <<v>>
    ELSE IF v <= Head(sorted) THEN <<v>> \o sorted
    ELSE <<Head(sorted)>> \o insertSorted(Tail(sorted), v)

RECURSIVE sortAscending(_)
\* [...values].sort((a, b) => a - b)
sortAscending(values) ==
    IF values = <<>> THEN <<>>
    ELSE insertSorted(sortAscending(Tail(values)), Head(values))

RECURSIVE calculateSum(_)
calculateSum(values) ==
    IF values = <<>> THEN 0 ELSE Head(values) + calculateSum(Tail(values))

sumOfSquares(values) == calculateSum([i \in DOMAIN values |-> values[i] * values[i]])

\* data.map(row => parseFloat(row[columnName])).filter(v => !isNaN(v))
numericValuesOf(rows, columnName) ==
    LET parsed == [i \in 1 .. Len(rows) |-> parseFloat(String(Get(rows[i], columnName)))]
        kept == SelectSeq(parsed, LAMBDA p : p # {})
    IN  [i \in 1 .. Len(kept) |-> CHOOSE n \in kept[i] : TRUE]

\* Variant of calculatePercentile_x100: the value at the floor position,
\* without interpolation.
calculatePercentile_x100_floorOnly(sortedValues, percentile) ==
    100 * sortedValues[(percentile * (Len(sortedValues) - 1)) \div 100 + 1]

\* calculatePercentile(sortedValues, percentile), times 100.  index is
\* percentile * (n - 1) / 100; lower and upper are 0-based in the source.
calculatePercentile_x100(sortedValues, percentile) ==
    LET index_x100 == percentile * (Len(sortedValues) - 1)
        lower == index_x100 \div 100
        weight_x100 == index_x100 % 100
        upper == IF weight_x100 = 0 THEN lower ELSE lower + 1
    IN  IF upper >= Len(sortedValues) THEN 100 * sortedValues[Len(sortedValues)]
        ELSE sortedValues[lower + 1] * (100 - weight_x100) + sortedValues[upper + 1] * weight_x100

calculateQuartiles(values) ==
    LET sorted == sortAscending(values)
        q1 == calculatePercentile_x100(sorted, 25)
        q2 == calculatePercentile_x100(sorted, 50)
        q3 == calculatePercentile_x100(sorted, 75)
    IN  [q1_x100 |-> q1, q2_x100 |-> q2, q3_x100 |-> q3, iqr_x100 |-> q3 - q1]

\* calculateMedian(values), times 2
calculateMedian_x2(values) ==
    LET sorted == sortAscending(values)
        mid == Len(sorted) \div 2
    IN  IF Len(sorted) % 2 = 0 THEN sorted[mid] + sorted[mid + 1]
        ELSE 2 * sorted[mid + 1]

\* calculateVariance(values) as the fraction num / den: the population
\* variance sum((v - mean)^2) / n equals (n * sum(v^2) - sum(v)^2) / n^2.
calculateVariance(values) ==
    LET n == Len(values)
    IN  [num |-> n * sumOfSquares(values) - calculateSum(values) * calculateSum(values),
         den |-> n * n]

\* The entry calculateStatistics builds for one header that has numeric values.
\* stdDev is the square root of variance and is carried as its square.
columnStatistics(values) ==
    LET sorted == sortAscending(values)
    IN  [min |-> sorted[1],
         max |-> sorted[Len(sorted)],
         mean |-> [num |-> calculateSum(values), den |-> Len(values)],
         median_x2 |-> calculateMedian_x2(values),
         stdDevSquared |-> calculateVariance(values),
         variance |-> calculateVariance(values),
         sum |-> calculateSum(values),
         count |-> Len(values),
         quartiles |-> calculateQuartiles(values)]

\* calculateStatistics(data, headers): an entry for every header with at
\* least one value that parses as a number, none for the others.
calculateStatistics(rows, headers) ==
    LET withValues == {h \in {headers[i] : i \in DOMAIN headers} : Len(numericValuesOf(rows, h)) > 0}
    IN  [h \in withValues |-> columnStatistics(numericValuesOf(rows, h))]

-----------------------------------------------------------------------------
(* Analytics.analyzeDataStructure *)

\* What a call hands back: a value, or a raised error.
Ret(v) == [threw |-> FALSE, value |-> v]

Throw(name) == [threw |-> TRUE, error |-> name]

\* An object with no own keys, {}.
EmptyObject == [h \in {} |-> 0]

Min(x, y) == IF x <= y THEN x ELSE y

\* The record built for one header inside headers.map(...).
analyzeColumnOf(rows, header) ==
    LET values == ColumnValues(rows, header)
    IN  [name |-> header,
         type |-> detectDataType(values),
         missingCount |-> countMissingValues(values),
         uniqueValues |-> countUniqueValues(values),
         sampleValues |-> SubSeq(values, 1, Min(5, Len(values)))]

analyzeDataStructure(rows) ==
    IF Len(rows) = 0
    THEN [columns |-> <<>>, rowCount |-> 0, columnCount |-> 0,
          dataTypes |-> EmptyObject, missingValues |-> EmptyObject,
          uniqueValues |-> EmptyObject, statistics |-> EmptyObject]
    ELSE LET headers == ObjectKeys(rows[1])
             columns == [i \in 1 .. Len(headers) |-> analyzeColumnOf(rows, headers[i])]
             names == {headers[i] : i \in DOMAIN headers}
             colOf(h) == columns[CHOOSE i \in DOMAIN headers : headers[i] = h]
         IN  [columns |-> columns,
              rowCount |-> Len(rows),
              columnCount |-> Len(headers),
              dataTypes |-> [h \in names |-> colOf(h).type],
              missingValues |-> [h \in names |-> colOf(h).missingCount],
              uniqueValues |-> [h \in names |-> colOf(h).uniqueValues],
              statistics |-> calculateStatistics(rows, headers)]

-----------------------------------------------------------------------------
(* Analytics: outlier detection *)

\* The data argument of detectOutliers: an array, or undefined.
Defined(rows) == [defined |-> TRUE, rows |-> rows]

UndefinedData == [defined |-> FALSE, rows |-> <<>>]

\* Variant of detectOutliersIQR: a value on a bound is an outlier too.
detectOutliersIQR_inclusive(values) ==
    LET sorted == sortAscending(values)
        q1 == calculatePercentile_x100(sorted, 25)
        q3 == calculatePercentile_x100(sorted, 75)
        iqr == q3 - q1
        lowerBound == 2 * q1 - 3 * iqr
        upperBound == 2 * q3 + 3 * iqr
        outliers == SelectSeq(values, LAMBDA v : 200 * v <= lowerBound \/ 200 * v >= upperBound)
    IN  [outliers |-> outliers,
         bounds |-> [kind |-> "iqr", lower_x200 |-> lowerBound, upper_x200 |-> upperBound],
         count |-> {Len(outliers)}]

\* bounds are carried times 200: lowerBound = q1 - 1.5 * iqr.
detectOutliersIQR(values) ==
    LET sorted == sortAscending(values)
        q1 == calculatePercentile_x100(sorted, 25)
        q3 == calculatePercentile_x100(sorted, 75)
        iqr == q3 - q1
        lowerBound == 2 * q1 - 3 * iqr
        upperBound == 2 * q3 + 3 * iqr
        outliers == SelectSeq(values, LAMBDA v : 200 * v < lowerBound \/ 200 * v > upperBound)
    IN  [outliers |-> outliers,
         bounds |-> [kind |-> "iqr", lower_x200 |-> lowerBound, upper_x200 |-> upperBound],
         count |-> {Len(outliers)}]

\* Variant of detectOutliersZScore: a Z-score equal to the threshold is an
\* outlier too.
detectOutliersZScore_inclusive(values, threshold) ==
    LET n == Len(values)
        sum == calculateSum(values)
        variance == calculateVariance(values)
        exceeds(v) == /\ variance.num # 0
                      /\ (n * v - sum) * (n * v - sum) >= threshold * threshold * variance.num
        outliers == SelectSeq(values, exceeds)
    IN  [outliers |-> outliers,
         bounds |-> [kind |-> "zscore", mean |-> [num |-> sum, den |-> n],
                     stdDevSquared |-> variance, threshold |-> threshold],
         count |-> {Len(outliers)}]

\* |(v - mean) / stdDev| > threshold.  With stdDev = 0 every v equals the
\* mean, the quotient is 0 / 0 = NaN and the comparison is false; otherwise
\* the test is (n v - sum)^2 > threshold^2 * (n * sum(v^2) - sum^2).
detectOutliersZScore(values, threshold) ==
    LET n == Len(values)
        sum == calculateSum(values)
        variance == calculateVariance(values)
        exceeds(v) == /\ variance.num # 0
                      /\ (n * v - sum) * (n * v - sum) > threshold * threshold * variance.num
        outliers == SelectSeq(values, exceeds)
    IN  [outliers |-> outliers,
         bounds |-> [kind |-> "zscore", mean |-> [num |-> sum, den |-> n],
                     stdDevSquared |-> variance, threshold |-> threshold],
         count |-> {Len(outliers)}]

\* { outliers: [], bounds: null }: the report has no count property.
EmptyOutlierReport == [outliers |-> <<>>, bounds |-> [kind |-> "null"], count |-> {}]

\* detectOutliers(data, columnName, method); data.map raises a TypeError
\* when data is undefined.
detectOutliers(dataArg, columnName, method) ==
    IF ~dataArg.defined THEN Throw("TypeError")
    ELSE LET values == numericValuesOf(dataArg.rows, columnName)
         IN  IF Len(values) = 0 THEN Ret(EmptyOutlierReport)
             ELSE IF method = "iqr" THEN Ret(detectOutliersIQR(values))
             ELSE IF method = "zscore" THEN Ret(detectOutliersZScore(values, 3))
             ELSE Ret(EmptyOutlierReport)

-----------------------------------------------------------------------------
(* Analytics: correlation *)

\* data.map(row => parseFloat(row[columnName])).filter(v => !isNaN(v)) with
\* the row each kept number comes from (rows are counted from 0).
numericCellsOf(rows, columnName) ==
    LET cells == [i \in 1 .. Len(rows) |->
                     [row |-> i - 1, parsed |-> parseFloat(String(Get(rows[i], columnName)))]]
        kept == SelectSeq(cells, LAMBDA c : c.parsed # {})
    IN  [i \in 1 .. Len(kept) |-> [row |-> kept[i].row, value |-> CHOOSE n \in kept[i].parsed : TRUE]]

\* x.reduce((sum, val, i) => sum + val * y[i], 0) for x and y of one length
sumOfProducts(x, y) == calculateSum([i \in DOMAIN x |-> x[i] * y[i]])

\* Variant of correlationNumerator: sumXY is not scaled by n.
correlationNumerator_unscaled(x, y) == sumOfProducts(x, y) - calculateSum(x) * calculateSum(y)

\* numerator = n * sumXY - sumX * sumY
correlationNumerator(x, y) == Len(x) * sumOfProducts(x, y) - calculateSum(x) * calculateSum(y)

\* (n * sumX2 - sumX * sumX) * (n * sumY2 - sumY * sumY), the square of
\* denominator
correlationDenominatorSquared(x, y) ==
    (Len(x) * sumOfSquares(x) - calculateSum(x) * calculateSum(x))
        * (Len(y) * sumOfSquares(y) - calculateSum(y) * calculateSum(y))

\* A coefficient numerator / denominator is carried as its numerator and the
\* square of its denominator; the literal 0 is 0 / 1 and NaN is 0 / 0.
Coefficient(numerator, denominatorSquared) ==
    [numerator |-> numerator, denominatorSquared |-> denominatorSquared]

\* getCorrelationStrength(Math.abs(correlation)): value < 0.3, value < 0.7
\* compared on the squares.
getCorrelationStrength(correlation) ==
    LET square == correlation.numerator * correlation.numerator
    IN  IF 100 * square < 9 * correlation.denominatorSquared THEN "weak"
        ELSE IF 100 * square < 49 * correlation.denominatorSquared THEN "moderate"
        ELSE "strong"

\* { correlation: 0, strength: 'none', direction: 'none' }
DegenerateCorrelation == [correlation |-> Coefficient(0, 1), strength |-> "none", direction |-> "none"]

\* Variant of correlationOf: no test of denominator === 0.
correlationOf_withoutZeroGuard(x, y) ==
    LET correlation == Coefficient(correlationNumerator(x, y), correlationDenominatorSquared(x, y))
    IN  [correlation |-> correlation,
         strength |-> getCorrelationStrength(correlation),
         direction |-> IF correlation.numerator > 0 /\ correlation.denominatorSquared > 0
                       THEN "positive" ELSE "negative"]

\* calculateCorrelation from const n on: x and y are of one length, not 0.
correlationOf(x, y) ==
    LET correlation == Coefficient(correlationNumerator(x, y), correlationDenominatorSquared(x, y))
    IN  IF correlation.denominatorSquared = 0 THEN DegenerateCorrelation
        ELSE [correlation |-> correlation,
              strength |-> getCorrelationStrength(correlation),
              direction |-> IF correlation.numerator > 0 THEN "positive" ELSE "negative"]

calculateCorrelation(rows, column1, column2) ==
    LET x == numericValuesOf(rows, column1)
        y == numericValuesOf(rows, column2)
    IN  IF Len(x) # Len(y) \/ Len(x) = 0 THEN DegenerateCorrelation
        ELSE correlationOf(x, y)

\* The rows whose values the products val * y[i] of sumXY multiply: none
\* when calculateCorrelation returns before it computes sumXY.
correlationProducts(rows, column1, column2) ==
    LET x == numericCellsOf(rows, column1)
        y == numericCellsOf(rows, column2)
    IN  IF Len(x) # Len(y) \/ Len(x) = 0 THEN <<>>
        ELSE [i \in DOMAIN x |-> [xRow |-> x[i].row, yRow |-> y[i].row]]

-----------------------------------------------------------------------------
(* Analytics: trend analysis *)

\* A number that is a quotient in the source, num / den with den > 0.  A
\* field that may be NaN is a set: {} is NaN, {q} is the number q.
Fraction(num, den) == [num |-> num, den |-> den]

\* x.toFixed(4) as the integer 10000 * x rounded to the nearest, the larger
\* one of two nearest; NaN prints as "NaN".
toFixed4(x) == {(2 * 10000 * q.num + q.den) \div (2 * q.den) : q \in x}

\* Variant of regressorOf: the number in the time column where there is one.
regressorOf_timeValue(val, i) ==
    IF parseFloat(String(val)) # {} THEN CHOOSE t \in parseFloat(String(val)) : TRUE ELSE i

\* What the callbacks (sum, val, i) => ... over timeValues take as x: the
\* index i, whatever val is.
regressorOf(val, i) == i

\* Variant of trendLabel: Math.abs(slope) >= 0.1.
trendLabel_inclusive(slope) ==
    IF \E q \in slope : 10 * q.num >= q.den THEN "increasing"
    ELSE IF \E q \in slope : 10 * q.num <= -q.den THEN "decreasing"
    ELSE "none"

\* trend: 'none' unless Math.abs(slope) > 0.1, then by the sign of slope.
trendLabel(slope) ==
    IF \E q \in slope : 10 * q.num > q.den THEN "increasing"
    ELSE IF \E q \in slope : 10 * q.num < -q.den THEN "decreasing"
    ELSE "none"

\* analyzeTrends(data, timeColumn, valueColumn).  With fewer numbers than
\* rows, numericValues[i] is undefined for the last indices, so sumXY and
\* everything computed from it is NaN.  With as many numbers as rows the
\* divisor n * sumX2 - sumX * sumX is 0 for one row only, where the dividend
\* is 0 too: 0 / 0 is NaN.  ssRes / ssTot is 0 / 0 for a constant column.
analyzeTrends(rows, timeColumn, valueColumn) ==
    LET timeValues == ColumnValues(rows, timeColumn)
        numericValues == numericValuesOf(rows, valueColumn)
        n == Len(numericValues)
        x(i) == regressorOf(timeValues[i + 1], i)
        indices == [k \in DOMAIN timeValues |-> k - 1]
        sumX == calculateSum([k \in DOMAIN indices |-> x(indices[k])])
        sumY == calculateSum(numericValues)
        sumXY == IF n < Len(timeValues) THEN {}
                 ELSE {calculateSum([k \in DOMAIN indices |-> x(indices[k]) * numericValues[k]])}
        sumX2 == calculateSum([k \in DOMAIN indices |-> x(indices[k]) * x(indices[k])])
        divisor == n * sumX2 - sumX * sumX
        slope == IF divisor = 0 THEN {}
                 ELSE {Fraction(n * xy - sumX * sumY, divisor) : xy \in sumXY}
        intercept == {Fraction(sumY * q.den - q.num * sumX, n * q.den) : q \in slope}
        ssTot == calculateSum([k \in DOMAIN numericValues |->
                                  (n * numericValues[k] - sumY) * (n * numericValues[k] - sumY)])
        residual(q, k) == numericValues[k] * n * q.den - q.num * (k - 1) * n
                              - (sumY * q.den - q.num * sumX)
        ssRes(q) == calculateSum([k \in DOMAIN numericValues |-> residual(q, k) * residual(q, k)])
        rSquared == IF ssTot = 0 THEN {}
                    ELSE {Fraction(q.den * q.den * ssTot - ssRes(q), q.den * q.den * ssTot) : q \in slope}
    IN  IF Len(timeValues) = 0 \/ n = 0
        THEN [trend |-> "none", slope |-> {Fraction(0, 1)}, rSquared |-> {Fraction(0, 1)}]
        ELSE [trend |-> trendLabel(slope),
              slope |-> slope,
              rSquared |-> rSquared,
              intercept |-> intercept,
              equation |-> [slope |-> toFixed4(slope), intercept |-> toFixed4(intercept)]]

-----------------------------------------------------------------------------
(* Analytics.generateInsights *)

RECURSIVE sumOver(_, _)
\* Object.values(obj).reduce((sum, val) => sum + val, 0)
sumOver(obj, keys) ==
    IF keys = {} THEN 0
    ELSE LET k == CHOOSE x \in keys : TRUE IN obj[k] + sumOver(obj, keys \ {k})

\* dataStructure.rawData: undefined unless the structure carries the property.
rawDataOf(dataStructure) ==
    IF "rawData" \in DOMAIN dataStructure THEN Defined(dataStructure.rawData) ELSE UndefinedData

columnNames(columns) == [i \in DOMAIN columns |-> columns[i].name]

RECURSIVE outlierInsights(_, _, _)
\* numericColumns.forEach(...): pushes onto insights; an error raised by
\* detectOutliers leaves the loop and generateInsights.
outlierInsights(dataStructure, numericColumns, insights) ==
    IF numericColumns = <<>> THEN Ret(insights)
    ELSE LET col == Head(numericColumns)
         IN  IF col.name \notin DOMAIN dataStructure.statistics
             THEN outlierInsights(dataStructure, Tail(numericColumns), insights)
             ELSE LET outliers == detectOutliers(rawDataOf(dataStructure), col.name, "iqr")
                  IN  IF outliers.threw THEN outliers
                      ELSE IF \E c \in outliers.value.count : c > 0
                      THEN outlierInsights(dataStructure, Tail(numericColumns),
                               Append(insights,
                                   [type |-> "outliers", severity |-> "warning",
                                    details |-> [column |-> col.name,
                                                 count |-> outliers.value.count,
                                                 bounds |-> outliers.value.bounds]]))
                      ELSE outlierInsights(dataStructure, Tail(numericColumns), insights)

\* dataQuality = ((totalCells - totalMissing) / totalCells) * 100 is NaN for
\* totalCells = 0, and NaN < 80 is false.
generateInsights(dataStructure) ==
    LET totalMissing == sumOver(dataStructure.missingValues, DOMAIN dataStructure.missingValues)
        totalCells == dataStructure.rowCount * dataStructure.columnCount
        quality == IF totalCells > 0 /\ 100 * (totalCells - totalMissing) < 80 * totalCells
                   THEN <<[type |-> "data_quality", severity |-> "warning",
                           details |-> [quality_num |-> 100 * (totalCells - totalMissing),
                                        quality_den |-> totalCells,
                                        missing |-> totalMissing, total |-> totalCells]]>>
                   ELSE <<>>
        numericColumns == SelectSeq(dataStructure.columns, LAMBDA col : col.type = "numeric")
        categoricalColumns == SelectSeq(dataStructure.columns, LAMBDA col : col.type = "categorical")
        analysis == IF Len(numericColumns) > 1
                    THEN <<[type |-> "analysis_opportunity", severity |-> "info",
                            details |-> [columns |-> columnNames(numericColumns)]]>>
                    ELSE <<>>
        visualization == IF Len(categoricalColumns) > 0
                         THEN <<[type |-> "visualization_opportunity", severity |-> "info",
                                 details |-> [columns |-> columnNames(categoricalColumns)]]>>
                         ELSE <<>>
    IN  outlierInsights(dataStructure, numericColumns, quality \o analysis \o visualization)

-----------------------------------------------------------------------------
(* DataProcessor *)

\* /^\d{4}-\d{2}-\d{2}/ or /^\d{2}:\d{2}:\d{2}/ matches.
matchesDateOrTimePrefix(s) == s \in {"2024-01-15", "2024-13-45"}

\* !isNaN(v): Number(v) is a number.
coercesToNumber(v) ==
    \/ v.kind \in {"number", "boolean", "null"}
    \/ v.kind = "string" /\ (IsNumeral(v.str) \/ v.str \in {" 7 ", "", "  "})

DataProcessor_booleanLiterals ==
    {Bool("true"), Bool("false"), Str("true"), Str("false"), Str("TRUE"), Str("FALSE"), Num(0), Num(1)}

DataProcessor_detectColumnType(values) ==
    IF Len(values) = 0 THEN "unknown"
    ELSE IF \E i \in DOMAIN values :
                /\ values[i].kind = "string"
                /\ (matchesDateOrTimePrefix(values[i].str) \/ dateParses(values[i].str))
         THEN "datetime"
    ELSE IF 10 * Len(SelectSeq(values, LAMBDA v : coercesToNumber(v) /\ v # Str(""))) > 8 * Len(values)
         THEN "numeric"
    ELSE IF 10 * Len(SelectSeq(values, LAMBDA v : v \in DataProcessor_booleanLiterals)) > 9 * Len(values)
         THEN "boolean"
    ELSE "text"

\* { min: null, max: null, mean: null, median: null, stdDev: null, outliers: [] }:
\* a field that is null is {}, a field that holds x is {x}.
DataProcessor_nullStatistics ==
    [min |-> {}, max |-> {}, mean |-> {}, median_x2 |-> {}, stdDevSquared |-> {}, outliers |-> <<>>]

\* The Z-score outliers of DataProcessor.detectOutliers, as {index, value}.
DataProcessor_detectOutliers(values) ==
    LET n == Len(values)
        sum == calculateSum(values)
        variance == calculateVariance(values)
        flagged == {i \in DOMAIN values :
                       /\ variance.num # 0
                       /\ (n * values[i] - sum) * (n * values[i] - sum) > 9 * variance.num}
        indices == SelectSeq([i \in DOMAIN values |-> i], LAMBDA i : i \in flagged)
    IN  [k \in DOMAIN indices |-> [index |-> indices[k] - 1, value |-> values[indices[k]]]]

DataProcessor_calculateStatistics(values, dataType) ==
    IF dataType # "numeric" \/ Len(values) = 0 THEN DataProcessor_nullStatistics
    ELSE LET parsed == [i \in DOMAIN values |-> parseFloat(String(values[i]))]
             kept == SelectSeq(parsed, LAMBDA p : p # {})
             numericValues == sortAscending([i \in 1 .. Len(kept) |-> CHOOSE n \in kept[i] : TRUE])
         IN  IF Len(numericValues) = 0 THEN DataProcessor_nullStatistics
             ELSE [min |-> {numericValues[1]},
                   max |-> {numericValues[Len(numericValues)]},
                   mean |-> {[num |-> calculateSum(numericValues), den |-> Len(numericValues)]},
                   median_x2 |-> {calculateMedian_x2(numericValues)},
                   stdDevSquared |-> {calculateVariance(numericValues)},
                   outliers |-> DataProcessor_detectOutliers(numericValues)]

\* Math.round(x) for x = num / den >= 0
roundRatio(num, den) == (2 * num + den) \div (2 * den)

DataProcessor_analyzeColumn(name, values) ==
    LET nonNullValues == SelectSeq(values, LAMBDA v : ~IsMissing(v))
        nullCount == Len(values) - Len(nonNullValues)
        dataType == DataProcessor_detectColumnType(nonNullValues)
    IN  [name |-> name,
         type |-> dataType,
         uniqueValues |-> Cardinality({String(nonNullValues[i]) : i \in DOMAIN nonNullValues}),
         nullCount |-> nullCount,
         nullPercentage |-> roundRatio(100 * nullCount, Len(values)),
         statistics |-> DataProcessor_calculateStatistics(nonNullValues, dataType)]

\* DataProcessor.countMissingValues(data): over the headers of the first row.
DataProcessor_countMissingValues(rows) ==
    LET headers == ObjectKeys(rows[1])
    IN  Cardinality({<<i, j>> \in (DOMAIN rows) \X (DOMAIN headers) : IsMissing(Get(rows[i], headers[j]))})

DataProcessor_analyzeDataStructure(rows) ==
    IF Len(rows) = 0 THEN Throw("No data to analyze")
    ELSE LET headers == ObjectKeys(rows[1])
             names == {headers[i] : i \in DOMAIN headers}
         IN  Ret([rowCount |-> Len(rows),
                  columnCount |-> Len(headers),
                  columns |-> [i \in 1 .. Len(headers) |->
                                  DataProcessor_analyzeColumn(headers[i], ColumnValues(rows, headers[i]))],
                  totalCells |-> Len(rows) * Len(headers),
                  missingCells |-> DataProcessor_countMissingValues(rows),
                  dataTypes |-> [h \in names |-> DataProcessor_detectColumnType(ColumnValues(rows, h))]])

-----------------------------------------------------------------------------
(* Analytics: the analysis cache *)

\* The capacity this.maxCacheSize, scaled down from the 100 of the
\* constructor so that a full cache is within reach of the search.
maxCacheSize == 2

\* The validity window of getCachedAnalysis, in milliseconds.
TTL == 600000

\* The number of rows hashData hashes, data.slice(0, 100), scaled down from
\* 100 so that datasets longer than the hashed prefix are within reach of
\* the search.
HashPrefixRows == 2

\* data.slice(0, HashPrefixRows)
HashedPrefix(rows) == SubSeq(rows, 1, Min(HashPrefixRows, Len(rows)))

\* Datasets: no rows; a categorical column only; a numeric and a categorical
\* column.  The callers of the cache machine hand the last two to
\* performAnalysis.
NoRows == <<>>

LabelsOnly == <<[a |-> Absent, b |-> Str("x")], [a |-> Absent, b |-> Str("y")]>>

Mixed == <<[a |-> Num(1), b |-> Str("x")], [a |-> Num(2), b |-> Str("y")], [a |-> Null, b |-> Str("z")]>>

CacheDatasets == {LabelsOnly, Mixed}

\* JSON.stringify of an array of rows: every row with the keys it has.
stringifyRows(rows) ==
    [i \in DOMAIN rows |-> [h \in {c \in DOMAIN rows[i] : rows[i][c] # Absent} |-> rows[i][h]]]

\* JSON.stringify(options): options is the list of its properties in
\* declaration order; a property whose value is undefined is left out.
stringifyOptions(options) == SelectSeq(options, LAMBDA prop : prop.value # Undefined)

\* The texts hashData is evaluated on.  The 32-bit string hash of a text
\* is carried as the position of the text in this list: equal texts get
\* equal hashes and the texts of the model get different ones.
HashedTexts ==
    <<stringifyRows(HashedPrefix(NoRows)), stringifyRows(HashedPrefix(LabelsOnly)),
      stringifyRows(HashedPrefix(Mixed)),
      stringifyRows([i \in 1 .. HashPrefixRows |-> [a |-> Absent, b |-> Str("x")]]),
      stringifyRows([i \in 1 .. HashPrefixRows |-> [a |-> Num(1), b |-> Absent]])>>

hashData(rows) ==
    LET text == stringifyRows(HashedPrefix(rows))
    IN  CHOOSE i \in DOMAIN HashedTexts : HashedTexts[i] = text

\* `${dataHash}-${optionsHash}`
generateCacheKey(rows, options) ==
    [dataHash |-> hashData(rows), optionsHash |-> stringifyOptions(options)]

\* Map operations on the entries kept in insertion order.
MapKeys(m) == {m[i].key : i \in DOMAIN m}

MapHas(m, key) == key \in MapKeys(m)

MapGet(m, key) == m[CHOOSE i \in DOMAIN m : m[i].key = key]

MapDelete(m, key) == SelectSeq(m, LAMBDA e : e.key # key)

\* Map.set: a present key keeps its place, a new key goes last.
MapSet(m, entry) ==
    IF MapHas(m, entry.key)
    THEN [i \in DOMAIN m |-> IF m[i].key = entry.key THEN entry ELSE m[i]]
    ELSE Append(m, entry)

\* JSON.stringify(result).length, carried as a count of the parts of the
\* result instead of its characters.
jsonLength(result) == 1 + Len(result.structure.columns) + Len(result.insights)

\* Variant of oldestKey: the key set last.
oldestKey_newest(m) == IF Len(m) > 0 THEN {m[Len(m)].key} ELSE {}

\* this.analysisCache.keys().next().value: {} is undefined (an empty Map).
oldestKey(m) == IF Len(m) > 0 THEN {m[1].key} ELSE {}

\* Variant of evictedKeys: size > maxCacheSize instead of >=.
evictedKeys_offByOne(m) == IF Len(m) > maxCacheSize THEN oldestKey(m) ELSE {}

\* The keys cacheAnalysis deletes before it sets the new entry.
evictedKeys(m) == IF Len(m) >= maxCacheSize THEN oldestKey(m) ELSE {}

\* cacheAnalysis(key, result) on the Map m at time t.
cacheAnalysis(m, key, result, t) ==
    LET kept == SelectSeq(m, LAMBDA e : e.key \notin evictedKeys(m))
    IN  MapSet(kept, [key |-> key, result |-> result, timestamp |-> t, size |-> jsonLength(result)])

\* Variant of getCachedAnalysis: an entry exactly TTL old is still valid.
getCachedAnalysis_inclusiveTTL(m, key, t) ==
    IF MapHas(m, key)
    THEN IF t - MapGet(m, key).timestamp <= TTL
         THEN [cache |-> m, returned |-> {MapGet(m, key).result}]
         ELSE [cache |-> MapDelete(m, key), returned |-> {}]
    ELSE [cache |-> m, returned |-> {}]

\* getCachedAnalysis(key) at time t: the Map it leaves, and what it
\* returns ({} is null, {r} is the result r).
getCachedAnalysis(m, key, t) ==
    IF MapHas(m, key)
    THEN IF t - MapGet(m, key).timestamp < TTL
         THEN [cache |-> m, returned |-> {MapGet(m, key).result}]
         ELSE [cache |-> MapDelete(m, key), returned |-> {}]
    ELSE [cache |-> m, returned |-> {}]

\* Variant of getCacheStats: entries older than TTL at time t are left out.
getCacheStats_validOnly(m, t) ==
    LET valid == SelectSeq(m, LAMBDA e : t - e.timestamp < TTL)
    IN  [size |-> Len(valid),
         maxSize |-> maxCacheSize,
         entries |-> [i \in DOMAIN valid |-> valid[i].key],
         totalSize |-> calculateSum([i \in DOMAIN valid |-> valid[i].size])]

\* getCacheStats() on the Map m; t is the time of the call, which the
\* source does not read.
getCacheStats(m, t) ==
    [size |-> Len(m),
     maxSize |-> maxCacheSize,
     entries |-> [i \in DOMAIN m |-> m[i].key],
     totalSize |-> calculateSum([i \in DOMAIN m |-> m[i].size])]

\* The object literal performAnalysis builds.  The call is synchronous, so
\* Date.now() - startTime is 0 on the clock of the model.  A result object
\* is told from another by its contents, its creation time among them.
newResult(structure, insights, options) ==
    [structure |-> structure, insights |-> insights,
     analysisTime |-> 0, timestamp |-> now, options |-> options]

-----------------------------------------------------------------------------
(* The cache machine: one Analytics instance and its callers *)

\* The options objects: {} and {deep: true}.
OptionValues == {<<>>, <<[name |-> "deep", value |-> Bool("true")]>>}

Keys == {generateCacheKey(rows, options) : rows \in CacheDatasets, options \in OptionValues}

\* The moments at which the callers act: the clock only moves forward.
Instants == {0, TTL - 1, TTL}

\* The record of the last call: its operation, key ({} when it has none),
\* the time it was made, how it ended, what it returned ({} for null or
\* nothing), the keys it evicted for capacity, whether it ran
\* analyzeDataStructure and generateInsights, and whether it repeats the
\* call before it (that call was performAnalysis with the same key, less
\* than TTL earlier, and was not itself served from the cache).
Call(op, key, outcome, result, evicted, ranStructure, ranInsights, repeated) ==
    [op |-> op, key |-> key, at |-> now, outcome |-> outcome, result |-> result,
     evicted |-> evicted, ranStructure |-> ranStructure, ranInsights |-> ranInsights,
     repeated |-> repeated]

Idle(op) == Call(op, {}, "none", {}, {}, FALSE, FALSE, FALSE)

\* No on-demand operation has been called.
NoRet == [op |-> "none"]

RemoveKeys(order, keys) == SelectSeq(order, LAMBDA k : k \notin keys)

AddKey(order, key) == IF \E i \in DOMAIN order : order[i] = key THEN order ELSE Append(order, key)

CacheInit ==
    /\ analysisCache = <<>>
    /\ now = 0
    /\ call = [op |-> "init", key |-> {}, at |-> 0, outcome |-> "none", result |-> {},
               evicted |-> {}, ranStructure |-> FALSE, ranInsights |-> FALSE,
               repeated |-> FALSE]
    /\ insertOrder = <<>>

Init ==
    /\ CacheInit
    /\ data = <<>>
    /\ ret = NoRet

\* Date.now() moves on between two calls.
Tick ==
    /\ \E t \in Instants : t > now /\ now' = t
    /\ UNCHANGED <<analysisCache, call, insertOrder, data, ret>>

\* What performAnalysis(rows, options) does to the cache, and the record of
\* the call.
performAnalysis(rows, options) ==
    LET cacheKey == generateCacheKey(rows, options)
        lookup == getCachedAnalysis(analysisCache, cacheKey, now)
        structure == analyzeDataStructure(rows)
        insights == generateInsights(structure)
        result == newResult(structure, insights.value, options)
        repeated == /\ call.op = "performAnalysis"
                    /\ call.key = {cacheKey}
                    /\ call.outcome # "hit"
                    /\ now - call.at < TTL
        expired == MapKeys(analysisCache) \ MapKeys(lookup.cache)
    IN  IF lookup.returned # {}
           THEN /\ analysisCache' = lookup.cache
                /\ insertOrder' = insertOrder
                /\ call' = Call("performAnalysis", {cacheKey}, "hit", lookup.returned, {}, FALSE, FALSE, repeated)
           ELSE IF insights.threw
           THEN /\ analysisCache' = lookup.cache
                /\ insertOrder' = RemoveKeys(insertOrder, expired)
                /\ call' = Call("performAnalysis", {cacheKey}, "threw", {}, {}, TRUE, TRUE, repeated)
           ELSE /\ analysisCache' = cacheAnalysis(lookup.cache, cacheKey, result, now)
                /\ insertOrder' = AddKey(RemoveKeys(insertOrder, expired \cup evictedKeys(lookup.cache)), cacheKey)
                /\ call' = Call("performAnalysis", {cacheKey}, "computed", {result},
                                evictedKeys(lookup.cache), TRUE, TRUE, repeated)

\* performAnalysis(rows, options)
PerformAnalysis(rows, options) ==
    /\ performAnalysis(rows, options)
    /\ UNCHANGED <<now, data, ret>>

\* cacheAnalysis(key, result), called from outside with a result object of
\* the caller's own.
CacheAnalysis(key) ==
    LET result == newResult(analyzeDataStructure(NoRows), <<>>, <<>>)
    IN  /\ analysisCache' = cacheAnalysis(analysisCache, key, result, now)
        /\ insertOrder' = AddKey(RemoveKeys(insertOrder, evictedKeys(analysisCache)), key)
        /\ call' = Call("cacheAnalysis", {key}, "stored", {result},
                        evictedKeys(analysisCache), FALSE, FALSE, FALSE)
        /\ UNCHANGED <<now, data, ret>>

\* getCachedAnalysis(key), called from outside.
GetCachedAnalysis(key) ==
    LET lookup == getCachedAnalysis(analysisCache, key, now)
        expired == MapKeys(analysisCache) \ MapKeys(lookup.cache)
    IN  /\ analysisCache' = lookup.cache
        /\ insertOrder' = RemoveKeys(insertOrder, expired)
        /\ call' = Call("getCachedAnalysis", {key},
                        IF lookup.returned # {} THEN "hit"
                        ELSE IF MapHas(analysisCache, key) THEN "expired" ELSE "absent",
                        lookup.returned, {}, FALSE, FALSE, FALSE)
        /\ UNCHANGED <<now, data, ret>>

\* clearCache()
ClearCache ==
    /\ analysisCache' = <<>>
    /\ insertOrder' = <<>>
    /\ call' = Idle("clearCache")
    /\ UNCHANGED <<now, data, ret>>

\* getCacheStats(): the record of the call carries the object returned.
GetCacheStats ==
    /\ call' = Idle("getCacheStats") @@ [stats |-> getCacheStats(analysisCache, now)]
    /\ UNCHANGED <<analysisCache, insertOrder, now, data, ret>>

Next ==
    \/ Tick
    \/ \E rows \in CacheDatasets, options \in OptionValues : PerformAnalysis(rows, options)
    \/ \E key \in Keys : CacheAnalysis(key)
    \/ \E key \in Keys : GetCachedAnalysis(key)
    \/ ClearCache
    \/ GetCacheStats

Spec == Init /\ [][Next]_vars

-----------------------------------------------------------------------------
(* The on-demand operations, applied to a dataset chosen at the start *)

\* The longest dataset handed to the profiling operations.
MaxRows == 3

\* The longest column handed to type inference.
MaxTypeRows == 6

RECURSIVE SeqsUpTo(_, _)
\* The sequences over S of length at most n.
SeqsUpTo(S, n) ==
    IF n = 0 THEN {<<>>}
    ELSE LET shorter == SeqsUpTo(S, n - 1)
         IN  shorter \cup {Append(q, x) : q \in {r \in shorter : Len(r) = n - 1}, x \in S}

\* Rows for profiling: column a holds a number, a label, null, the empty
\* string or is not a key of the row; column b holds a label or is not a key.
StructureRows ==
    {[a |-> Num(1), b |-> Str("x")], [a |-> Num(2), b |-> Str("y")], [a |-> Null, b |-> Str("z")],
     [a |-> Str(""), b |-> Str("x")], [a |-> Absent, b |-> Str("y")], [a |-> Num(1), b |-> Absent],
     [a |-> Num(2), b |-> Str("x")], [a |-> Null, b |-> Str("x")], [a |-> Num(2), b |-> Str("z")],
     [a |-> Str("x"), b |-> Str("x")]}

\* The longest column handed to outlier detection.
MaxOutlierRows == 5

\* Rows for outlier detection: column a holds a number.
OutlierRows == {[a |-> Num(n), b |-> Absent] : n \in {1, 2, 3, 4, 100}}

\* The method identifiers handed to detectOutliers; "mad" is not one the
\* source knows.
OutlierMethods == {"iqr", "zscore", "mad"}

\* Rows for type inference: one column holding a date, a number that is
\* also a boolean token, a boolean token, a label or null.
TypeRows ==
    {[a |-> x, b |-> Absent] : x \in {Str("2024-01-15"), Num(1), Str("yes"), Str("x"), Null}}

Returned(op, result) == [op |-> op, result |-> result]

InitStructure ==
    /\ CacheInit
    /\ data \in SeqsUpTo(StructureRows, MaxRows)
    /\ ret = NoRet

InitType ==
    /\ CacheInit
    /\ data \in SeqsUpTo(TypeRows, MaxTypeRows)
    /\ ret = NoRet

\* Variant of AnalyzeDataStructure: the structure is also kept in the cache.
AnalyzeDataStructure_caching ==
    LET key == generateCacheKey(data, <<>>)
        result == newResult(analyzeDataStructure(data), <<>>, <<>>)
    IN  /\ ret' = Returned("Analytics.analyzeDataStructure", Ret(analyzeDataStructure(data)))
        /\ analysisCache' = cacheAnalysis(analysisCache, key, result, now)
        /\ insertOrder' = AddKey(RemoveKeys(insertOrder, evictedKeys(analysisCache)), key)
        /\ UNCHANGED <<now, call, data>>

\* new Analytics().analyzeDataStructure(data)
AnalyzeDataStructure ==
    /\ ret' = Returned("Analytics.analyzeDataStructure", Ret(analyzeDataStructure(data)))
    /\ UNCHANGED <<analysisCache, now, call, insertOrder, data>>

\* new DataProcessor().analyzeDataStructure(data)
DataProcessorAnalyzeDataStructure ==
    /\ ret' = Returned("DataProcessor.analyzeDataStructure", DataProcessor_analyzeDataStructure(data))
    /\ UNCHANGED <<analysisCache, now, call, insertOrder, data>>

\* detectDataType(data.map(row => row[header]))
DetectDataType(header) ==
    /\ ret' = Returned("detectDataType", Ret(detectDataType(ColumnValues(data, header))))
    /\ UNCHANGED <<analysisCache, now, call, insertOrder, data>>

\* The longest run of equal values in front of a long column.
MaxOnes == 10

\* Long columns: a run of ones followed by one more value.  Nine equal
\* values and a tenth put that tenth at a Z-score of exactly 3, ten equal
\* values and an eleventh put it above 3.
LongColumns ==
    {[i \in 1 .. k |-> [a |-> Num(1), b |-> Absent]] \o <<r>> :
        k \in MaxOutlierRows .. MaxOnes, r \in OutlierRows}

\* Columns in which some cells do not parse as a number.
PartlyNumericColumns ==
    {<<[a |-> Num(1), b |-> Absent], [a |-> Str("x"), b |-> Absent], [a |-> Num(100), b |-> Absent]>>,
     <<[a |-> Str("12abc"), b |-> Absent], [a |-> Num(1), b |-> Absent], [a |-> Null, b |-> Absent],
       [a |-> Num(1), b |-> Absent], [a |-> Num(1), b |-> Absent], [a |-> Num(1), b |-> Absent]>>,
     <<[a |-> Str("x"), b |-> Absent], [a |-> Null, b |-> Absent]>>}

InitOutliers ==
    /\ CacheInit
    /\ data \in SeqsUpTo(OutlierRows, MaxOutlierRows) \cup LongColumns \cup PartlyNumericColumns
    /\ ret = NoRet

\* detectOutliers(data, columnName, method)
DetectOutliers(columnName, method) ==
    /\ ret' = [op |-> "detectOutliers", column |-> columnName, method |-> method,
               result |-> detectOutliers(Defined(data), columnName, method)]
    /\ UNCHANGED <<analysisCache, now, call, insertOrder, data>>

\* new DataProcessor().detectOutliers(numericValues, mean, stdDev), called
\* as calculateStatistics calls it: on the sorted numbers of the column,
\* with their mean and standard deviation.
DataProcessorDetectOutliers(columnName) ==
    /\ ret' = [op |-> "DataProcessor.detectOutliers", column |-> columnName,
               result |-> Ret(DataProcessor_detectOutliers(sortAscending(numericValuesOf(data, columnName))))]
    /\ UNCHANGED <<analysisCache, now, call, insertOrder, data>>

NextOutliers ==
    \/ \E method \in OutlierMethods : DetectOutliers("a", method)
    \/ DataProcessorDetectOutliers("a")

SpecOutliers == InitOutliers /\ [][NextOutliers]_vars

NextStructure == AnalyzeDataStructure \/ DataProcessorAnalyzeDataStructure

NextType == DetectDataType("a")

SpecStructure == InitStructure /\ [][NextStructure]_vars

SpecType == InitType /\ [][NextType]_vars

-----------------------------------------------------------------------------
(* Correlation, applied to a dataset chosen at the start *)

\* The longest dataset handed to calculateCorrelation.
MaxCorrelationRows == 3

\* Rows for correlation: each column holds a number or a label.
CorrelationRows ==
    {[a |-> x, b |-> y] : x \in {Num(1), Num(2), Str("x")}, y \in {Num(1), Num(2), Str("x")}}
        \cup {[a |-> Num(3), b |-> Num(1)]}

InitCorrelation ==
    /\ CacheInit
    /\ data \in SeqsUpTo(CorrelationRows, MaxCorrelationRows)
    /\ ret = NoRet

\* calculateCorrelation(data, column1, column2)
CalculateCorrelation(column1, column2) ==
    /\ ret' = [op |-> "calculateCorrelation", column1 |-> column1, column2 |-> column2,
               result |-> Ret(calculateCorrelation(data, column1, column2)),
               products |-> correlationProducts(data, column1, column2)]
    /\ UNCHANGED <<analysisCache, now, call, insertOrder, data>>

NextCorrelation == \E column1 \in {"a", "b"}, column2 \in {"a", "b"} : CalculateCorrelation(column1, column2)

SpecCorrelation == InitCorrelation /\ [][NextCorrelation]_vars

-----------------------------------------------------------------------------
(* Trend analysis, applied to a dataset chosen at the start *)

\* The longest dataset handed to analyzeTrends.
MaxTrendRows == 4

\* The value columns: every column of 0, 1 and a label, and the columns
\* y = 2x + 3 over the row position x.
TrendValueColumns ==
    SeqsUpTo({Num(0), Num(1), Str("x")}, MaxTrendRows)
        \cup {[i \in 1 .. len |-> Num(2 * (i - 1) + 3)] : len \in 0 .. MaxTrendRows}

\* What the time column holds in row i of len rows: nothing (the rows lack
\* the key), a date, or a number that counts down.
TimeFills == {"absent", "date", "countdown"}

TimeValue(fill, i, len) ==
    CASE fill = "absent" -> Absent
      [] fill = "date" -> Str("2024-01-15")
      [] fill = "countdown" -> Num(2 * (len - i))

\* The dataset with the value column a and the time column b.
TrendDataset(values, fill) ==
    [i \in DOMAIN values |-> [a |-> values[i], b |-> TimeValue(fill, i, Len(values))]]

InitTrend ==
    /\ CacheInit
    /\ data \in {TrendDataset(values, fill) : values \in TrendValueColumns, fill \in TimeFills}
    /\ ret = NoRet

\* analyzeTrends(data, timeColumn, valueColumn)
AnalyzeTrends(timeColumn, valueColumn) ==
    /\ ret' = [op |-> "analyzeTrends", timeColumn |-> timeColumn, valueColumn |-> valueColumn,
               result |-> Ret(analyzeTrends(data, timeColumn, valueColumn))]
    /\ UNCHANGED <<analysisCache, now, call, insertOrder, data>>

NextTrend == AnalyzeTrends("b", "a")

SpecTrend == InitTrend /\ [][NextTrend]_vars

-----------------------------------------------------------------------------
(* Insight generation, applied to a dataset chosen at the start *)

\* The longest dataset handed to generateInsights.
MaxInsightRows == 5

\* What a column holds in row i of len rows: the numbers 1, 2, 3, ...; the
\* same with 100 in the last row; labels; null in the first row and numbers
\* after it; null in every row; nothing (the rows lack the key).
ColumnFills == {"numbers", "spike", "labels", "gap", "nulls", "absent"}

FillValue(fill, i, len) ==
    CASE fill = "numbers" -> Num(i)
      [] fill = "spike" -> IF i = len THEN Num(100) ELSE Num(i)
      [] fill = "labels" -> IF i % 2 = 1 THEN Str("x") ELSE Str("y")
      [] fill = "gap" -> IF i = 1 THEN Null ELSE Num(i)
      [] fill = "nulls" -> Null
      [] fill = "absent" -> Absent

InsightDataset(fillA, fillB, len) ==
    [i \in 1 .. len |-> [a |-> FillValue(fillA, i, len), b |-> FillValue(fillB, i, len)]]

InitInsights ==
    /\ CacheInit
    /\ data \in {InsightDataset(fillA, fillB, len) :
                    fillA \in ColumnFills, fillB \in ColumnFills, len \in 0 .. MaxInsightRows}
    /\ ret = NoRet

\* generateInsights(this.analyzeDataStructure(data)), as performAnalysis
\* calls it.
GenerateInsights ==
    /\ ret' = [op |-> "generateInsights", withRawData |-> FALSE,
               structure |-> analyzeDataStructure(data),
               result |-> generateInsights(analyzeDataStructure(data))]
    /\ UNCHANGED <<analysisCache, now, call, insertOrder, data>>

\* generateInsights({...this.analyzeDataStructure(data), rawData: data}): a
\* caller that puts the dataset into the structure it hands over.
GenerateInsightsWithRawData ==
    /\ ret' = [op |-> "generateInsights", withRawData |-> TRUE,
               structure |-> analyzeDataStructure(data),
               result |-> generateInsights(analyzeDataStructure(data) @@ [rawData |-> data])]
    /\ UNCHANGED <<analysisCache, now, call, insertOrder, data>>

NextInsights == GenerateInsights \/ GenerateInsightsWithRawData

SpecInsights == InitInsights /\ [][NextInsights]_vars

-----------------------------------------------------------------------------
(* The cache machine on datasets longer than the hashed prefix *)

\* HashPrefixRows equal rows and one more row after them.
LongDataset(row, last) == [i \in 1 .. HashPrefixRows |-> row] \o <<last>>

\* Two datasets of labels and two of numbers; the two of a pair differ in
\* the row after the hashed prefix only.
PrefixDatasets ==
    {LongDataset([a |-> Absent, b |-> Str("x")], [a |-> Absent, b |-> Str("x")]),
     LongDataset([a |-> Absent, b |-> Str("x")], [a |-> Absent, b |-> Str("y")]),
     LongDataset([a |-> Num(1), b |-> Absent], [a |-> Num(1), b |-> Absent]),
     LongDataset([a |-> Num(1), b |-> Absent], [a |-> Num(2), b |-> Absent])}

\* performAnalysis(rows, options); data keeps the dataset of the call.
PerformAnalysisOf(rows, options) ==
    /\ performAnalysis(rows, options)
    /\ data' = rows
    /\ UNCHANGED <<now, ret>>

NextPrefix ==
    \/ Tick
    \/ \E rows \in PrefixDatasets, options \in OptionValues : PerformAnalysisOf(rows, options)

SpecPrefix == Init /\ [][NextPrefix]_vars

-----------------------------------------------------------------------------
(* The cached pipeline and the on-demand operations on one dataset *)

InitPure ==
    /\ CacheInit
    /\ data \in CacheDatasets
    /\ ret = NoRet

\* The keys of the dataset under the options of the callers.
KeysOfData == {generateCacheKey(data, options) : options \in OptionValues}

NextPure ==
    \/ Tick
    \/ \E options \in OptionValues : PerformAnalysis(data, options)
    \/ \E key \in KeysOfData : CacheAnalysis(key)
    \/ \E key \in KeysOfData : GetCachedAnalysis(key)
    \/ ClearCache
    \/ AnalyzeDataStructure
    \/ \E method \in OutlierMethods : DetectOutliers("a", method)
    \/ CalculateCorrelation("a", "b")
    \/ AnalyzeTrends("b", "a")

SpecPure == InitPure /\ [][NextPure]_vars

-----------------------------------------------------------------------------
(* Claims about the analysis cache *)

\* C1: a performAnalysis call that repeats the call before it (same dataset
\* and options, less than TTL later, nothing removed in between) is served
\* from the cache: it returns the stored result and runs neither
\* analyzeDataStructure nor generateInsights again.
C1_RepeatedCallIsServedFromCache ==
    (call.op = "performAnalysis" /\ call.repeated)
        => /\ call.outcome = "hit"
           /\ ~call.ranStructure
           /\ ~call.ranInsights

\* C2: a performAnalysis call that misses the cache completes: it returns
\* the combined result and leaves it in the cache under the key of the call.
C2_MissComputesAndStores ==
    (call.op = "performAnalysis" /\ call.outcome # "hit")
        => /\ call.outcome = "computed"
           /\ call.result # {}
           /\ \A k \in call.key :
                  MapHas(analysisCache, k) /\ MapGet(analysisCache, k).result \in call.result

\* C3: the cache never holds more than maxCacheSize entries.
C3_CacheWithinCapacity == Len(analysisCache) <= maxCacheSize

\* A full cache right after an insert that evicted for capacity.
C3_Witness == Len(analysisCache) = maxCacheSize /\ call.evicted # {}

\* C4: an insert of a new key into a full cache removes exactly one entry,
\* the one whose key entered the cache first among those present; a lookup
\* that hits leaves the eviction order as it was.
C4_EvictsEarliestInserted ==
    [][ /\ ( /\ now' = now
             /\ call'.outcome \in {"stored", "computed"}
             /\ call'.key \cap MapKeys(analysisCache) = {}
             /\ Len(analysisCache) >= maxCacheSize )
           => /\ MapKeys(analysisCache) \ MapKeys(analysisCache') = {insertOrder[1]}
              /\ Len(analysisCache') = Len(analysisCache)
        /\ ( /\ now' = now
             /\ call'.outcome = "hit" )
           => /\ [i \in DOMAIN analysisCache' |-> analysisCache'[i].key] = insertOrder
              /\ insertOrder' = insertOrder
      ]_vars

\* A new key has just been stored in a full cache, evicting another key.
C4_Witness ==
    /\ call.evicted # {}
    /\ call.evicted # call.key
    /\ Len(analysisCache) = maxCacheSize

\* C5: a lookup of an entry that is TTL old or older reports a miss and
\* removes the entry; a lookup of a younger entry returns its result.
C5_LookupHonoursTTL ==
    [][ ( /\ now' = now
          /\ call'.op \in {"getCachedAnalysis", "performAnalysis"} )
        => \A k \in call'.key \cap MapKeys(analysisCache) :
               LET entry == MapGet(analysisCache, k)
               IN  IF now - entry.timestamp >= TTL
                   THEN /\ entry.result \notin call'.result
                        /\ call'.outcome # "hit"
                        /\ \A i \in DOMAIN analysisCache' : analysisCache'[i] # entry
                        /\ call'.op = "getCachedAnalysis"
                               => call'.result = {} /\ ~MapHas(analysisCache', k)
                   ELSE /\ call'.result = {entry.result}
                        /\ call'.outcome = "hit"
      ]_vars

\* A direct lookup has just found an expired entry.
C5_Witness == call.op = "getCachedAnalysis" /\ call.outcome = "expired"

-----------------------------------------------------------------------------
(* Claims about the on-demand operations *)

\* The cells of a column that hold a value: the key is there and its value
\* is not null and not the empty string.
PresentRows(header) == {r \in DOMAIN data : data[r][header] \notin {Absent, Null, Str("")}}

\* C6: for a dataset with no rows every entry point returns an empty
\* result, rowCount = 0, columnCount = 0 and columns = [] for the structure,
\* and none raises.
C6_EmptyDatasetYieldsEmptyResult ==
    (Len(data) = 0 /\ ret.op \in {"Analytics.analyzeDataStructure", "DataProcessor.analyzeDataStructure"})
        => /\ ~ret.result.threw
           /\ ret.result.value.rowCount = 0
           /\ ret.result.value.columnCount = 0
           /\ ret.result.value.columns = <<>>

\* C7: detectOutliers with a method other than iqr and zscore ends in an
\* error; it does not return a report.
C7_UnsupportedMethodIsAnError ==
    (ret.op = "detectOutliers" /\ ret.method \notin {"iqr", "zscore"})
        => ret.result.threw

\* C8: for every profiled column, the missing count plus the number of rows
\* in which the column holds a value is the row count.
C8_MissingPlusPresentIsRowCount ==
    /\ ret.op = "Analytics.analyzeDataStructure"
          => LET structure == ret.result.value
             IN  /\ structure.rowCount = Len(data)
                 /\ \A i \in DOMAIN structure.columns :
                        structure.columns[i].missingCount
                            + Cardinality(PresentRows(structure.columns[i].name))
                        = structure.rowCount
    /\ (ret.op = "DataProcessor.analyzeDataStructure" /\ ~ret.result.threw)
          => LET structure == ret.result.value
             IN  /\ structure.rowCount = Len(data)
                 /\ \A i \in DOMAIN structure.columns :
                        structure.columns[i].nullCount
                            + Cardinality(PresentRows(structure.columns[i].name))
                        = structure.rowCount

\* A profiled column a with a row that lacks the key, a row that holds the
\* empty string or null, and a row that holds a value.
C8_Witness ==
    /\ ret.op = "Analytics.analyzeDataStructure"
    /\ Len(data) = 3
    /\ data[1]["a"] # Absent
    /\ \E r \in DOMAIN data : data[r]["a"] = Absent
    /\ \E r \in DOMAIN data : data[r]["a"] \in {Null, Str("")}
    /\ ret.result.value.columns[1].missingCount = 2

\* C9: uniqueValues of a column is the number of distinct string forms of
\* its non-missing values, and the rows {a:1,b:'x'}, {a:2,b:'y'},
\* {a:null,b:'z'} give a: 1 missing, 2 unique, numeric and b: 0 missing,
\* 3 unique, categorical.
C9_UniqueCountsNonMissingOnly ==
    ret.op = "Analytics.analyzeDataStructure"
        => LET columns == ret.result.value.columns
           IN  /\ \A i \in DOMAIN columns :
                      columns[i].uniqueValues
                      = Cardinality({data[r][columns[i].name].str : r \in PresentRows(columns[i].name)})
               /\ data = Mixed
                     => /\ columns[1].missingCount = 1
                        /\ columns[1].uniqueValues = 2
                        /\ columns[1].type = "numeric"
                        /\ columns[2].missingCount = 0
                        /\ columns[2].uniqueValues = 3
                        /\ columns[2].type = "categorical"

\* The recognizers of type inference, each on its own.
IsDateValue(v) == matchesDatePattern(Trim(String(v))) /\ dateParses(Trim(String(v)))

IsNumericValue(v) == parseFloat(Trim(String(v))) # {} /\ isFinite(Trim(String(v)))

IsBooleanToken(v) == toLowerCase(Trim(String(v))) \in BooleanTokens

\* The rows of column a assigned to a bucket: the first recognizer, in the
\* order date, numeric, boolean, that takes the value.
BucketRows(bucket) ==
    {r \in PresentRows("a") :
        LET v == data[r]["a"]
        IN  CASE bucket = "date" -> IsDateValue(v)
              [] bucket = "numeric" -> ~IsDateValue(v) /\ IsNumericValue(v)
              [] bucket = "boolean" -> ~IsDateValue(v) /\ ~IsNumericValue(v) /\ IsBooleanToken(v)}

\* The share of the bucket among the non-missing values exceeds 0.8 = 4/5.
ShareAbove(bucket) == 5 * Cardinality(BucketRows(bucket)) > 4 * Cardinality(PresentRows("a"))

\* C10: type inference returns empty when no value is non-missing, else the
\* first of date, numeric, boolean whose share of the non-missing values is
\* strictly above 0.8, else categorical.
C10_TypeIsFirstBucketAboveThreshold ==
    ret.op = "detectDataType"
        => ret.result.value =
               IF PresentRows("a") = {} THEN "empty"
               ELSE IF ShareAbove("date") THEN "date"
               ELSE IF ShareAbove("numeric") THEN "numeric"
               ELSE IF ShareAbove("boolean") THEN "boolean"
               ELSE "categorical"

\* Four of five non-missing values are numeric, a share of exactly 0.8, and
\* the inferred type is categorical.
C10_Witness ==
    /\ ret.op = "detectDataType"
    /\ Cardinality(PresentRows("a")) = 5
    /\ Cardinality(BucketRows("numeric")) = 4
    /\ ret.result.value = "categorical"

\* C11: in the structure analyzeDataStructure returns, a column has
\* descriptive statistics if and only if its inferred type is numeric; a
\* column of any other type has none (null).
C11_StatisticsIffNumeric ==
    /\ ret.op = "Analytics.analyzeDataStructure"
          => LET structure == ret.result.value
             IN  \A i \in DOMAIN structure.columns :
                     (structure.columns[i].name \in DOMAIN structure.statistics)
                         <=> structure.columns[i].type = "numeric"
    /\ (ret.op = "DataProcessor.analyzeDataStructure" /\ ~ret.result.threw)
          => \A i \in DOMAIN ret.result.value.columns :
                 (ret.result.value.columns[i].statistics # DataProcessor_nullStatistics)
                     <=> ret.result.value.columns[i].type = "numeric"

\* The numbers of the column the last outlier call was about.
OutlierValues == numericValuesOf(data, ret.column)

\* C12: an IQR report on a column with at least one number has
\* lower <= upper, holds every number of the column outside [lower, upper]
\* and none inside it (the bounds included), and its count is the length
\* of outliers.
C12_IQRReportMatchesBounds ==
    (ret.op = "detectOutliers" /\ ret.method = "iqr" /\ Len(OutlierValues) > 0)
        => /\ ~ret.result.threw
           /\ LET report == ret.result.value
                  outside(v) == 200 * v < report.bounds.lower_x200 \/ 200 * v > report.bounds.upper_x200
                  occurrences(q, v) == Cardinality({i \in DOMAIN q : q[i] = v})
              IN  /\ report.bounds.kind = "iqr"
                  /\ report.bounds.lower_x200 <= report.bounds.upper_x200
                  /\ \A i \in DOMAIN OutlierValues :
                         outside(OutlierValues[i])
                             => occurrences(report.outliers, OutlierValues[i])
                                = occurrences(OutlierValues, OutlierValues[i])
                  /\ \A j \in DOMAIN report.outliers : outside(report.outliers[j])
                  /\ report.count = {Len(report.outliers)}

\* An IQR report with an outlier and a value that lies on a bound and is
\* not reported.
C12_Witness ==
    /\ ret.op = "detectOutliers"
    /\ ret.method = "iqr"
    /\ ret.result.value.outliers # <<>>
    /\ \E i \in DOMAIN OutlierValues :
           /\ 200 * OutlierValues[i] = ret.result.value.bounds.upper_x200
           /\ \A j \in DOMAIN ret.result.value.outliers :
                  ret.result.value.outliers[j] # OutlierValues[i]

\* The percentile by linear interpolation, times 100: index = p/100 * (n-1),
\* the values at floor(index) and ceil(index) weighted by the fraction.
InterpolatedPercentile_x100(sorted, p) ==
    LET index_x100 == p * (Len(sorted) - 1)
        floor == index_x100 \div 100
        ceil == (index_x100 + 99) \div 100
        frac_x100 == index_x100 - 100 * floor
    IN  sorted[floor + 1] * (100 - frac_x100) + sorted[ceil + 1] * frac_x100

\* C13: the quartiles are the interpolated percentiles 25, 50 and 75 of the
\* sorted values and the IQR bounds are q1 - 1.5 iqr and q3 + 1.5 iqr; the
\* values 1, 2, 3, 4, 100 give q1 = 2, q3 = 4, iqr = 2, bounds [-1, 7] and
\* outliers [100].
C13_QuartilesInterpolate ==
    (ret.op = "detectOutliers" /\ ret.method = "iqr" /\ Len(OutlierValues) > 0)
        => LET sorted == sortAscending(OutlierValues)
               q1 == InterpolatedPercentile_x100(sorted, 25)
               q2 == InterpolatedPercentile_x100(sorted, 50)
               q3 == InterpolatedPercentile_x100(sorted, 75)
               report == ret.result.value
           IN  /\ calculateQuartiles(OutlierValues)
                      = [q1_x100 |-> q1, q2_x100 |-> q2, q3_x100 |-> q3, iqr_x100 |-> q3 - q1]
               /\ report.bounds.lower_x200 = 2 * q1 - 3 * (q3 - q1)
               /\ report.bounds.upper_x200 = 2 * q3 + 3 * (q3 - q1)
               /\ OutlierValues = <<1, 2, 3, 4, 100>>
                     => /\ q1 = 200 /\ q3 = 400
                        /\ report.bounds.lower_x200 = -200
                        /\ report.bounds.upper_x200 = 1400
                        /\ report.outliers = <<100>>

\* The IQR report on the values 1, 2, 3, 4, 100.
C13_Witness ==
    /\ ret.op = "detectOutliers"
    /\ ret.method = "iqr"
    /\ OutlierValues = <<1, 2, 3, 4, 100>>
    /\ ret.result.value.outliers = <<100>>

\* |v - mean| / stdDev > 3 for a value v of values, stated on the
\* deviations n * v - sum: stdDev^2 is the mean of the squared deviations.
ZScoreAboveThree(values, v) ==
    LET n == Len(values)
        deviation(w) == n * w - calculateSum(values)
        squares == calculateSum([i \in DOMAIN values |-> deviation(values[i]) * deviation(values[i])])
    IN  squares > 0 /\ n * deviation(v) * deviation(v) > 9 * squares

\* C14: under the Z-score policy with the default threshold 3 a value is
\* reported iff |value - mean| / stdDev > 3, and nothing is reported for a
\* constant column (stdDev = 0).
C14_ZScoreReportsAboveThreshold ==
    /\ (ret.op = "detectOutliers" /\ ret.method = "zscore" /\ Len(OutlierValues) > 0)
          => /\ ~ret.result.threw
             /\ ret.result.value.outliers
                    = SelectSeq(OutlierValues, LAMBDA v : ZScoreAboveThree(OutlierValues, v))
             /\ calculateVariance(OutlierValues).num = 0 => ret.result.value.outliers = <<>>
    /\ ret.op = "DataProcessor.detectOutliers"
          => LET sorted == sortAscending(OutlierValues)
                 reported == ret.result.value
             IN  /\ [j \in DOMAIN reported |-> reported[j].value]
                        = SelectSeq(sorted, LAMBDA v : ZScoreAboveThree(sorted, v))
                 /\ \A j \in DOMAIN reported : sorted[reported[j].index + 1] = reported[j].value
                 /\ calculateVariance(sorted).num = 0 => reported = <<>>

\* A Z-score report that holds an outlier.
C14_Witness ==
    /\ ret.op = "detectOutliers"
    /\ ret.method = "zscore"
    /\ ret.result.value.outliers = <<100>>

-----------------------------------------------------------------------------
(* Claims about correlation *)

\* The rows in which both columns of the last correlation call parse as a
\* number.
PairedRows ==
    SelectSeq(data, LAMBDA row : /\ parseFloat(String(Get(row, ret.column1))) # {}
                                 /\ parseFloat(String(Get(row, ret.column2))) # {})

\* C15: calculateCorrelation pairs the two columns by row: every product
\* that enters the coefficient multiplies two values of one row, and the
\* coefficient is the one of the rows in which both columns parse.
C15_ProductsPairValuesOfOneRow ==
    ret.op = "calculateCorrelation"
        => /\ \A i \in DOMAIN ret.products : ret.products[i].xRow = ret.products[i].yRow
           /\ ret.products # <<>>
                 => ret.result.value = calculateCorrelation(PairedRows, ret.column1, ret.column2)

\* C16: the correlation of a column with itself, for a column whose
\* numbers are not all equal, is 1 with direction positive and strength
\* strong.
C16_SelfCorrelationIsOne ==
    ( /\ ret.op = "calculateCorrelation"
      /\ ret.column1 = ret.column2
      /\ calculateVariance(numericValuesOf(data, ret.column1)).num > 0 )
        => LET result == ret.result.value
           IN  /\ result.correlation.numerator > 0
               /\ result.correlation.numerator * result.correlation.numerator
                      = result.correlation.denominatorSquared
               /\ result.direction = "positive"
               /\ result.strength = "strong"

\* The self-correlation of a column that holds different numbers and a cell
\* that does not parse.
C16_Witness ==
    /\ ret.op = "calculateCorrelation"
    /\ ret.column1 = "a" /\ ret.column2 = "a"
    /\ Len(numericValuesOf(data, "a")) < Len(data)
    /\ ret.result.value.strength = "strong"
    /\ ret.result.value.direction = "positive"

\* The two filtered columns of the last correlation call.
FilteredX == numericValuesOf(data, ret.column1)

FilteredY == numericValuesOf(data, ret.column2)

\* The last correlation call was on degenerate input: the filtered counts
\* differ, a filtered column is empty, or a filtered column has zero
\* variance (the denominator is zero).
DegenerateInput ==
    \/ Len(FilteredX) # Len(FilteredY)
    \/ Len(FilteredX) = 0
    \/ Len(FilteredY) = 0
    \/ calculateVariance(FilteredX).num = 0
    \/ calculateVariance(FilteredY).num = 0

\* C17: on degenerate input calculateCorrelation does not raise and returns
\* coefficient 0, strength none, direction none.
C17_DegenerateInputYieldsNone ==
    (ret.op = "calculateCorrelation" /\ DegenerateInput)
        => /\ ~ret.result.threw
           /\ ret.result.value.correlation.numerator = 0
           /\ ret.result.value.correlation.denominatorSquared # 0
           /\ ret.result.value.strength = "none"
           /\ ret.result.value.direction = "none"

\* Two filtered columns of one length, the second constant: the denominator
\* is zero.
C17_Witness ==
    /\ ret.op = "calculateCorrelation"
    /\ Len(FilteredX) = Len(FilteredY)
    /\ Len(FilteredX) >= 2
    /\ calculateVariance(FilteredX).num > 0
    /\ calculateVariance(FilteredY).num = 0
    /\ ret.result.value.direction = "none"

\* C18: the direction is positive exactly when the coefficient is > 0,
\* negative exactly when it is < 0, and none only on degenerate input.
C18_DirectionIsSignOfCoefficient ==
    ret.op = "calculateCorrelation"
        => LET result == ret.result.value
           IN  /\ result.direction = "positive" <=> result.correlation.numerator > 0
               /\ result.direction = "negative" <=> result.correlation.numerator < 0
               /\ result.direction = "none" => DegenerateInput

-----------------------------------------------------------------------------
(* Claims about trend analysis *)

\* The dataset with the cells of the time column of the last call removed.
WithoutTimeColumn ==
    [i \in DOMAIN data |-> [c \in DOMAIN data[i] |->
        IF c = ret.timeColumn THEN Absent ELSE data[i][c]]]

\* The value column of the last call is y = 2x + 3 over the row position x,
\* on at least two rows.
IsTwoXPlusThree ==
    /\ Len(data) >= 2
    /\ \A i \in DOMAIN data : data[i][ret.valueColumn] = Num(2 * (i - 1) + 3)

\* C19: analyzeTrends regresses on the row position and never on what the
\* time column holds: its result is the one for the same rows without the
\* time cells, and a value column y = 2x + 3 over the row position gives
\* slope 2, intercept 3 and rSquared 1.
C19_RegressesOnRowPosition ==
    ret.op = "analyzeTrends"
        => /\ ret.result.value = analyzeTrends(WithoutTimeColumn, ret.timeColumn, ret.valueColumn)
           /\ IsTwoXPlusThree
                 => /\ \E q \in ret.result.value.slope : q.num = 2 * q.den
                    /\ \E q \in ret.result.value.intercept : q.num = 3 * q.den
                    /\ \E q \in ret.result.value.rSquared : q.num = q.den

\* The fit of y = 2x + 3 on four rows whose time column counts down.
C19_Witness ==
    /\ ret.op = "analyzeTrends"
    /\ IsTwoXPlusThree
    /\ Len(data) = 4
    /\ data[1][ret.timeColumn] = Num(6)
    /\ ret.result.value.trend = "increasing"

\* C20: the trend label is increasing iff slope > 0.1, decreasing iff
\* slope < -0.1 and none otherwise, a slope of exactly 0.1 or -0.1 and a
\* fit without a slope included.
C20_TrendLabelFollowsSlope ==
    ret.op = "analyzeTrends"
        => LET slope == ret.result.value.slope
               trend == ret.result.value.trend
           IN  /\ trend = "increasing" <=> \E q \in slope : 10 * q.num > q.den
               /\ trend = "decreasing" <=> \E q \in slope : 10 * q.num < -q.den
               /\ trend \in {"increasing", "decreasing", "none"}

\* A fit with a slope of exactly 0.1, labelled none.
C20_Witness ==
    /\ ret.op = "analyzeTrends"
    /\ \E q \in ret.result.value.slope : 10 * q.num = q.den
    /\ ret.result.value.trend = "none"

-----------------------------------------------------------------------------
(* Claims about insight generation *)

\* The columns of the structure of the last generateInsights call that have
\* the type, in declaration order.
ColumnsOfType(type) == SelectSeq(ret.structure.columns, LAMBDA col : col.type = type)

\* The non-missing share of the cells of the structure is below 80%.
QualityBelow80 ==
    LET cells == ret.structure.rowCount * ret.structure.columnCount
        missing == calculateSum([i \in DOMAIN ret.structure.columns |->
                                    ret.structure.columns[i].missingCount])
    IN  cells > 0 /\ 100 * (cells - missing) < 80 * cells

\* The numeric columns whose IQR report on the dataset holds an outlier.
ColumnsWithOutliers ==
    SelectSeq(ColumnsOfType("numeric"),
              LAMBDA col : detectOutliersIQR(numericValuesOf(data, col.name)).outliers # <<>>)

\* The types of the insights in the order the claims give.
ExpectedInsightTypes ==
    (IF QualityBelow80 THEN <<"data_quality">> ELSE <<>>)
        \o (IF Len(ColumnsOfType("numeric")) >= 2 THEN <<"analysis_opportunity">> ELSE <<>>)
        \o (IF Len(ColumnsOfType("categorical")) >= 1 THEN <<"visualization_opportunity">> ELSE <<>>)
        \o [i \in DOMAIN ColumnsWithOutliers |-> "outliers"]

\* C21: generateInsights returns its list in the order data_quality,
\* analysis_opportunity, visualization_opportunity, then one outliers
\* insight per numeric column with an IQR outlier, in column order.
C21_InsightsInFixedOrder ==
    ret.op = "generateInsights"
        => /\ ~ret.result.threw
           /\ LET insights == ret.result.value
                  outlierInsightsOf == SelectSeq(insights, LAMBDA insight : insight.type = "outliers")
              IN  /\ [i \in DOMAIN insights |-> insights[i].type] = ExpectedInsightTypes
                  /\ [i \in DOMAIN outlierInsightsOf |-> outlierInsightsOf[i].details.column]
                         = [i \in DOMAIN ColumnsWithOutliers |-> ColumnsWithOutliers[i].name]

\* C22: generateInsights emits one data_quality insight exactly when the
\* non-missing share is below 80%, one analysis_opportunity insight exactly
\* when there are two or more numeric columns and one
\* visualization_opportunity insight exactly when there is a categorical
\* column, never more than one of each, and none for a structure of no rows.
C22_OneInsightPerTrigger ==
    ret.op = "generateInsights"
        => /\ ~ret.result.threw
           /\ LET insights == ret.result.value
                  emitted(type) == Cardinality({i \in DOMAIN insights : insights[i].type = type})
              IN  /\ emitted("data_quality") = IF QualityBelow80 THEN 1 ELSE 0
                  /\ emitted("analysis_opportunity")
                         = IF Len(ColumnsOfType("numeric")) >= 2 THEN 1 ELSE 0
                  /\ emitted("visualization_opportunity")
                         = IF Len(ColumnsOfType("categorical")) >= 1 THEN 1 ELSE 0
                  /\ ret.structure.rowCount = 0 => insights = <<>>

-----------------------------------------------------------------------------
(* Claims about the cache key *)

\* C23: the key depends on the hashed first rows and the serialized options
\* only, so a performAnalysis call on a dataset that agrees with the
\* dataset of the call before it on the hashed first rows, with the same
\* options and within the TTL, returns the result computed for that earlier
\* dataset; and two option objects that serialize differently never give
\* one key for the same data.
C23_KeyIsPrefixAndOptions ==
    [][ /\ ( /\ call'.op = "performAnalysis"
             /\ now' = now )
           => \A k \in call'.key : k.dataHash = hashData(HashedPrefix(data'))
        /\ ( /\ call'.op = "performAnalysis"
             /\ call.op = "performAnalysis"
             /\ now' = now
             /\ data' # data
             /\ HashedPrefix(data') = HashedPrefix(data)
             /\ \A k \in call'.key, j \in call.key : k.optionsHash = j.optionsHash
             /\ call.outcome # "hit"
             /\ now - call.at < TTL )
           => /\ call'.key = call.key
              /\ call'.outcome = "hit"
              /\ call'.result # {}
              /\ call'.result = call.result
              /\ \A r \in call'.result : r.structure = analyzeDataStructure(data)
        /\ \A rows \in PrefixDatasets, o1 \in OptionValues, o2 \in OptionValues :
               stringifyOptions(o1) # stringifyOptions(o2)
                   => generateCacheKey(rows, o1) # generateCacheKey(rows, o2)
      ]_vars

-----------------------------------------------------------------------------
(* Claims about profiling rows of different shapes *)

\* The rows of the dataset do not all have the same keys.
DifferentKeySets == \E i \in DOMAIN data, j \in DOMAIN data : ObjectKeys(data[i]) # ObjectKeys(data[j])

\* The missing count a profile reports for a column: missingCount in
\* Analytics, nullCount in DataProcessor.
ReportedMissing(column) ==
    IF "missingCount" \in DOMAIN column THEN column.missingCount ELSE column.nullCount

\* C24: on a dataset whose rows differ in their keys analyzeDataStructure
\* does not raise, and the missing count of every profiled column counts
\* each row that lacks the column's key, next to the rows that hold null or
\* the empty string.
C24_AbsentKeysCountAsMissing ==
    ( /\ ret.op \in {"Analytics.analyzeDataStructure", "DataProcessor.analyzeDataStructure"}
      /\ DifferentKeySets )
        => /\ ~ret.result.threw
           /\ \A i \in DOMAIN ret.result.value.columns :
                  LET column == ret.result.value.columns[i]
                      lacking == {r \in DOMAIN data : data[r][column.name] = Absent}
                      blank == {r \in DOMAIN data : data[r][column.name] \in {Null, Str("")}}
                  IN  ReportedMissing(column) = Cardinality(lacking) + Cardinality(blank)

\* A DataProcessor profile of a column whose key the first row has and two
\* later rows lack.
C24_Witness ==
    /\ ret.op = "DataProcessor.analyzeDataStructure"
    /\ Len(data) = 3
    /\ data[1]["a"] = Num(1)
    /\ data[2]["a"] = Absent
    /\ data[3]["a"] = Absent
    /\ ret.result.value.columns[1].name = "a"
    /\ ret.result.value.columns[1].nullCount = 2

\* C25: for a profiled column none of whose non-missing values parses as a
\* number, a statistics record is reported and every field of it is null.
C25_NoNumbersYieldsNullStatistics ==
    /\ ret.op = "Analytics.analyzeDataStructure"
          => LET structure == ret.result.value
             IN  \A i \in DOMAIN structure.columns :
                     LET name == structure.columns[i].name
                     IN  Len(numericValuesOf(data, name)) = 0
                             => /\ name \in DOMAIN structure.statistics
                                /\ \A field \in DOMAIN structure.statistics[name] :
                                       structure.statistics[name][field] = {}
    /\ (ret.op = "DataProcessor.analyzeDataStructure" /\ ~ret.result.threw)
          => \A i \in DOMAIN ret.result.value.columns :
                 LET column == ret.result.value.columns[i]
                 IN  Len(numericValuesOf(data, column.name)) = 0
                         => /\ column.statistics.min = {}
                            /\ column.statistics.max = {}
                            /\ column.statistics.mean = {}
                            /\ column.statistics.median_x2 = {}
                            /\ column.statistics.stdDevSquared = {}

-----------------------------------------------------------------------------
(* Claims about expiry and the statistics of the cache *)

\* The entry of key k in the cache is TTL old or older.
IsExpired(k) == MapHas(analysisCache, k) /\ now - MapGet(analysisCache, k).timestamp >= TTL

\* C26: expiry is lazy.  A step that moves the clock removes nothing; an
\* entry leaves the cache only by clearCache, by a capacity eviction, or by
\* a lookup of its own key made when it is TTL old or older; and
\* getCacheStats counts every entry of the Map in size, entries and
\* totalSize, the expired ones included.
C26_ExpiryIsLazy ==
    [][ /\ now' # now => analysisCache' = analysisCache
        /\ \A k \in MapKeys(analysisCache) \ MapKeys(analysisCache') :
               \/ call'.op = "clearCache"
               \/ k \in call'.evicted
               \/ /\ call'.op \in {"getCachedAnalysis", "performAnalysis"}
                  /\ call'.key = {k}
                  /\ IsExpired(k)
        /\ call'.op = "getCacheStats"
               => /\ call'.stats.size = Len(analysisCache)
                  /\ call'.stats.entries = [i \in DOMAIN analysisCache |-> analysisCache[i].key]
                  /\ call'.stats.totalSize = calculateSum([i \in DOMAIN analysisCache |-> analysisCache[i].size])
      ]_vars

\* getCacheStats has just counted an entry that is TTL old.
C26_Witness ==
    /\ call.op = "getCacheStats"
    /\ call.at = now
    /\ \E k \in Keys :
           /\ IsExpired(k)
           /\ \E i \in DOMAIN call.stats.entries : call.stats.entries[i] = k
    /\ call.stats.size = Len(analysisCache)
    /\ call.stats.totalSize > 0

\* C27: performAnalysis looks up, computes and inserts in one step, so a
\* performAnalysis call that ends without a hit leaves its key in the cache,
\* and a performAnalysis call made right after another one with the same
\* key, at the same instant, hits the entry of the earlier call: it returns
\* that call's result and computes nothing.
C27_OverlappingCallsComputeOnce ==
    [][ /\ (now' = now /\ call'.op = "performAnalysis" /\ call'.outcome # "hit")
           => \A k \in call'.key :
                  /\ MapHas(analysisCache', k)
                  /\ MapGet(analysisCache', k).timestamp = now
        /\ ( /\ now' = now
             /\ call.op = "performAnalysis"
             /\ call'.op = "performAnalysis"
             /\ call'.key = call.key
             /\ call'.at = call.at )
           => /\ call'.outcome = "hit"
              /\ call'.result = call.result
              /\ ~call'.ranStructure
              /\ ~call'.ranInsights
              /\ analysisCache' = analysisCache
      ]_vars

\* C30: cacheAnalysis for a key that is already in the cache replaces the
\* entry of that key only: the same keys are present afterwards, in the same
\* number, and every other entry is as it was, also when the cache is full.
C30_OverwriteKeepsOtherEntries ==
    [][ ( /\ now' = now
          /\ call'.op = "cacheAnalysis"
          /\ call'.key # {}
          /\ call'.key \subseteq MapKeys(analysisCache) )
        => /\ MapKeys(analysisCache') = MapKeys(analysisCache)
           /\ Len(analysisCache') = Len(analysisCache)
           /\ \A k \in MapKeys(analysisCache) \ call'.key :
                  /\ MapHas(analysisCache', k)
                  /\ MapGet(analysisCache', k) = MapGet(analysisCache, k)
      ]_vars

-----------------------------------------------------------------------------
(* Claims about rows dropped from a trend *)

\* The rows of the dataset whose value cell parses as a number.
RowsWithNumber == SelectSeq(data, LAMBDA row : parseFloat(String(Get(row, ret.valueColumn))) # {})

\* C29: analyzeTrends fits the rows whose value parses as a number and no
\* others: its result is the fit of those rows alone, and with two of them
\* or more slope and intercept are numbers.
C29_FitsTheRowsThatParse ==
    (ret.op = "analyzeTrends" /\ Len(RowsWithNumber) >= 1)
        => /\ ret.result.value = analyzeTrends(RowsWithNumber, ret.timeColumn, ret.valueColumn)
           /\ Len(RowsWithNumber) >= 2
                 => /\ ret.result.value.slope # {}
                    /\ ret.result.value.intercept # {}

-----------------------------------------------------------------------------
(* Claims about the operations outside the cached pipeline *)

\* C28: analyzeDataStructure, detectOutliers, calculateCorrelation and
\* analyzeTrends leave the dataset and the cache (keys, results, timestamps
\* and order) as they were; the cache changes only in a step of
\* performAnalysis, cacheAnalysis, clearCache or a getCachedAnalysis that
\* finds its entry expired.
C28_OnDemandOperationsArePureReads ==
    [][ /\ data' = data
        /\ ret' # ret
               => /\ ret'.op \in {"Analytics.analyzeDataStructure", "detectOutliers",
                                  "calculateCorrelation", "analyzeTrends"}
                  /\ analysisCache' = analysisCache
                  /\ insertOrder' = insertOrder
        /\ analysisCache' # analysisCache
               => /\ ret' = ret
                  /\ \/ call'.op \in {"performAnalysis", "cacheAnalysis", "clearCache"}
                     \/ call'.op = "getCachedAnalysis" /\ call'.outcome = "expired"
      ]_vars

\* An on-demand operation has returned on an instance whose cache holds
\* an entry for each of the keys of the dataset.
C28_Witness ==
    /\ ret.op = "analyzeTrends"
    /\ data = Mixed
    /\ MapKeys(analysisCache) = KeysOfData
    /\ call.op = "getCachedAnalysis"
    /\ call.outcome = "hit"

====
